---- MODULE Spec2Model ----
(***************************************************************************)
(* Chart geometry of astro-chorus: the sign/degree resolver, the aspect    *)
(* detector, the house placement resolver and the calculate-chart request  *)
(* handler that combines them; then the browser side: the page that holds  *)
(* the reading and the chat component that talks about it.                 *)
(*                                                                         *)
(* Angles are JavaScript numbers in the source.  Here an angle is an       *)
(* integer count of thousandths of a degree, so that rounding to two       *)
(* decimal places (Math.round(x * 100) / 100) is a real operation that     *)
(* loses the third decimal.                                                *)
(***************************************************************************)
EXTENDS Integers, Sequences, FiniteSets, TLC

VARIABLES
    fpc,                                \* a function under check: "idle", "call", "done"
    lon, signOut,                       \* getSignAndDegree: argument, result
    planets, aspects,                   \* calculateAspects: argument, result
    bodyLon, houseCusps, houseOut,      \* calculateHousePosition: arguments, result
    hpc,                                \* POST /api/calculate-chart: where the handler is
    request,                            \* the parsed request body
    geo, geoCalls,                      \* the geocoding fetch: its state, how often issued
    astro, astroCalls,                  \* the ephemeris fetch: its state, how often issued
    coordinates, astroData,             \* the handler's locals of these names
    reading,                            \* astrologyReading
    response,                           \* what NextResponse.json was given
    mounted,                            \* Home: its mount effect has run
    currentView, pageReading,           \* Home's state: currentView, astrologyReading
    pageLoading,                        \* Home's state: loading
    chartData,                          \* localStorage item 'astroChartData'
    chartFetch, chartCalls,             \* the calculate-chart fetch: its state, how often issued
    alerts,                             \* how often alert() was called
    reloads,                            \* how often the browser reloaded the page
    messages, chatLoading,              \* TerminalChat's state: messages, loading
    explanationsLoaded,                 \* TerminalChat's state of this name
    tasks,                              \* the planetPromises of the query in hand
    sends,                              \* how many queries were accepted
    explCache,                          \* localStorage items 'chart_explanations_...'
    explFetches, explCalls,             \* chart-explanations fetches awaited, how often issued
    now,                                \* Date.now(), in steps of TickStep
    formData,                           \* TerminalBirthForm's state of this name
    formOut                             \* what the last handleSubmit did

vars == <<fpc, lon, signOut, planets, aspects, bodyLon, houseCusps, houseOut,
          hpc, request, geo, geoCalls, astro, astroCalls, coordinates, astroData,
          reading, response, mounted, currentView, pageReading, pageLoading,
          chartData, chartFetch, chartCalls, alerts, reloads, messages, chatLoading,
          explanationsLoaded, tasks, sends, explCache, explFetches, explCalls, now,
          formData, formOut>>

signVars    == <<lon, signOut>>
aspectVars  == <<planets, aspects>>
houseVars   == <<bodyLon, houseCusps, houseOut>>
handlerVars == <<hpc, request, geo, geoCalls, astro, astroCalls, coordinates,
                 astroData, reading, response>>
pageVars    == <<mounted, currentView, pageReading, pageLoading, chartData,
                 chartFetch, chartCalls, alerts, reloads>>
chatVars    == <<messages, chatLoading, explanationsLoaded, tasks, sends>>
explVars    == <<explCache, explFetches, explCalls>>
formVars    == <<formData, formOut>>
clientVars  == <<pageVars, chatVars, explVars, now, formVars>>

\* ------------------------------------------------------------------ numbers

\* d whole degrees, in thousandths of a degree
Deg(d) == d * 1000

\* Math.abs
Abs(x) == IF x < 0 THEN 0 - x ELSE x

\* Math.round(x * 100) / 100: to the nearest hundredth, a half rounds up
Round2(x) == ((x + 5) \div 10) * 10

\* Math.floor(x / 30)
Floor30(x) == x \div Deg(30)

\* x % 30 (JavaScript's remainder takes the sign of the dividend)
Rem30(x) == IF x >= 0 THEN x % Deg(30) ELSE 0 - ((0 - x) % Deg(30))

\* the numbers of JavaScript that are not finite, each a value that no angle in
\* thousandths takes
NaN         == 0 - 2000000001
Infinity    == 0 - 2000000002
NegInfinity == 0 - 2000000003

IsFinite(x) == x \notin {NaN, Infinity, NegInfinity}

\* a - b on numbers
Minus(a, b) ==
    IF a = NaN \/ b = NaN THEN NaN
    ELSE IF ~IsFinite(a) THEN (IF a = b THEN NaN ELSE a)
    ELSE IF b = Infinity THEN NegInfinity
    ELSE IF b = NegInfinity THEN Infinity
    ELSE a - b

\* Math.abs on numbers
MathAbs(x) ==
    IF x = NaN THEN NaN
    ELSE IF ~IsFinite(x) THEN Infinity
    ELSE Abs(x)

\* a > b on numbers: false when either is NaN
Greater(a, b) ==
    IF a = NaN \/ b = NaN THEN FALSE
    ELSE IF a = Infinity THEN b # Infinity
    ELSE IF a = NegInfinity THEN FALSE
    ELSE IF b = Infinity THEN FALSE
    ELSE IF b = NegInfinity THEN TRUE
    ELSE a > b

\* a <= b on numbers: false when either is NaN
LessEq(a, b) == a # NaN /\ b # NaN /\ ~Greater(a, b)

\* the value a result variable holds before its function has returned
NoResult == [none |-> TRUE]

\* ------------------------------------------------------ getSignAndDegree

ZODIAC_SIGNS ==
    << "Aries", "Taurus", "Gemini", "Cancer", "Leo", "Virgo",
       "Libra", "Scorpio", "Sagittarius", "Capricorn", "Aquarius", "Pisces" >>

\* ZODIAC_SIGNS[i] with JavaScript's 0-based index; out of range is undefined
SignAt(i) ==
    IF i + 1 \in DOMAIN ZODIAC_SIGNS THEN ZODIAC_SIGNS[i + 1] ELSE "undefined"

\* a plausible slip: the sign index rounded to the nearest instead of floored
SignIndexRounded(longitude) == (longitude + Deg(15)) \div Deg(30)

signIndex(longitude) == Floor30(longitude)

getSignAndDegree(longitude) ==
    [ sign   |-> SignAt(signIndex(longitude)),
      degree |-> Round2(Rem30(longitude)) ]

\* third decimals tried in every whole degree; none is a 5, where the binary
\* double nearest the decimal decides which way Math.round goes
LonFractions == {0, 1, 4, 6, 10, 250, 500, 990, 994, 996, 999}

\* the longitudes the resolver is called with: [0,360) and 360 itself
SignLons == {Deg(d) + f : d \in 0..359, f \in LonFractions} \cup {Deg(360)}

\* ------------------------------------------------------- calculateAspects

\* the names the handler looks its bodies up by; a list's i-th body has the i-th name
BodyNames ==
    << "Sun", "Moon", "Mercury", "Venus", "Mars", "Jupiter",
       "Saturn", "Uranus", "Neptune", "Pluto", "North Node" >>

\* a plausible slip: a table that gives every type an orb of 15
aspectTypesWide ==
    << [name |-> "Conjunction", degrees |-> 0,   orb |-> 15],
       [name |-> "Opposition",  degrees |-> 180, orb |-> 15],
       [name |-> "Trine",       degrees |-> 120, orb |-> 15],
       [name |-> "Square",      degrees |-> 90,  orb |-> 15],
       [name |-> "Sextile",     degrees |-> 60,  orb |-> 15],
       [name |-> "Quincunx",    degrees |-> 150, orb |-> 15] >>

aspectTypes ==
    << [name |-> "Conjunction", degrees |-> 0,   orb |-> 8],
       [name |-> "Opposition",  degrees |-> 180, orb |-> 8],
       [name |-> "Trine",       degrees |-> 120, orb |-> 8],
       [name |-> "Square",      degrees |-> 90,  orb |-> 8],
       [name |-> "Sextile",     degrees |-> 60,  orb |-> 6],
       [name |-> "Quincunx",    degrees |-> 150, orb |-> 3] >>

\* a plausible slip: the signed difference, without Math.abs
DiffSigned(l1, l2) ==
    LET d == l1 - l2 IN IF d > Deg(180) THEN Deg(360) - d ELSE d

\* a plausible slip: the raw difference, without the shorter-arc rule
DiffNoWrap(l1, l2) == Abs(l1 - l2)

\* let diff = Math.abs(l1 - l2); if (diff > 180) diff = 360 - diff
Diff(l1, l2) ==
    LET d == MathAbs(Minus(l1, l2))
    IN  IF Greater(d, Deg(180)) THEN Minus(Deg(360), d) ELSE d

\* orb = Math.abs(diff - aspectType.degrees)
OrbTo(diff, k) == MathAbs(Minus(diff, Deg(aspectTypes[k].degrees)))

\* a plausible slip: the test written as !(orb > aspectType.orb)
NotBeyondOrb(orb, k) == ~Greater(orb, Deg(aspectTypes[k].orb))

\* if (orb <= aspectType.orb)
WithinOrb(orb, k) == LessEq(orb, Deg(aspectTypes[k].orb))

\* for (const aspectType of aspectTypes) ... break: index of the first entry
\* at or after k whose orb admits diff, 0 when none does
RECURSIVE FirstMatch(_, _)
FirstMatch(diff, k) ==
    IF k > Len(aspectTypes) THEN 0
    ELSE IF WithinOrb(OrbTo(diff, k), k) THEN k
    ELSE FirstMatch(diff, k + 1)

\* the body of the inner loop: what the pair pushes onto aspects
PairAspects(planet1, planet2) ==
    LET diff == Diff(planet1.longitude, planet2.longitude)
        k    == FirstMatch(diff, 1)
    IN  IF k = 0 THEN << >>
        ELSE << [ planet1      |-> planet1.name,
                  planet2      |-> planet2.name,
                  aspect       |-> aspectTypes[k].name,
                  orb          |-> Round2(OrbTo(diff, k)),
                  exactDegrees |-> aspectTypes[k].degrees ] >>

\* a plausible slip: the inner loop starting at j = i
InnerFrom(i) == i

\* for (let j = i + 1; ...): the first j of the inner loop (1-based here)
InnerStart(i) == i + 1

RECURSIVE InnerLoop(_, _, _)
InnerLoop(ps, i, j) ==
    IF j > Len(ps) THEN << >>
    ELSE PairAspects(ps[i], ps[j]) \o InnerLoop(ps, i, j + 1)

RECURSIVE OuterLoop(_, _)
OuterLoop(ps, i) ==
    IF i > Len(ps) THEN << >>
    ELSE InnerLoop(ps, i, InnerStart(i)) \o OuterLoop(ps, i + 1)

\* a plausible slip: an insertion that goes in front of equal orbs
RECURSIVE InsertBeforeEqual(_, _)
InsertBeforeEqual(sorted, x) ==
    IF sorted = << >> THEN << x >>
    ELSE LET last == sorted[Len(sorted)]
         IN  IF x.orb - last.orb <= 0
             THEN InsertBeforeEqual(SubSeq(sorted, 1, Len(sorted) - 1), x) \o << last >>
             ELSE Append(sorted, x)

\* x goes behind every element it does not compare below (a.orb - b.orb < 0)
RECURSIVE InsertByOrb(_, _)
InsertByOrb(sorted, x) ==
    IF sorted = << >> THEN << x >>
    ELSE LET last == sorted[Len(sorted)]
         IN  IF x.orb - last.orb < 0
             THEN InsertByOrb(SubSeq(sorted, 1, Len(sorted) - 1), x) \o << last >>
             ELSE Append(sorted, x)

\* a plausible slip: the list returned as built
Unsorted(s) == s

\* aspects.sort((a, b) => a.orb - b.orb); Array.prototype.sort is stable
RECURSIVE SortByOrb(_)
SortByOrb(s) ==
    IF s = << >> THEN << >>
    ELSE InsertByOrb(SortByOrb(SubSeq(s, 1, Len(s) - 1)), s[Len(s)])

calculateAspects(ps) == SortByOrb(OuterLoop(ps, 1))

\* the most bodies in a list drawn freely
MaxBodies == 3

\* longitudes of freely drawn lists: every aspect, the edges of the orbs, the
\* wrap across 360/0, and third decimals that rounding drops
AspectLons ==
    { 0, Deg(1), Deg(8), Deg(8) + 1, Deg(10), Deg(11) + 4, Deg(60), Deg(70),
      Deg(120), Deg(153) + 1, Deg(180), Deg(270), Deg(352), Deg(359) + 996 }

\* first longitudes of the two-body sweep
SweepBase == { 0, Deg(10), Deg(359) + 999 }

\* second longitudes of the two-body sweep: every quarter degree, and one
\* thousandth to either side of every whole degree
SweepLons ==
    { 250 * q : q \in 0..1439 } \cup { Deg(d) + 1 : d \in 0..359 }
        \cup { Deg(d) - 1 : d \in 1..360 }

BodyList(lons) ==
    [ i \in 1..Len(lons) |-> [name |-> BodyNames[i], longitude |-> lons[i]] ]

AspectInputs ==
    { BodyList(l) : l \in UNION { [1..n -> AspectLons] : n \in 0..MaxBodies } }
        \cup { BodyList(<< a, b >>) : a \in SweepBase, b \in SweepLons }

\* longitudes of malformed lists: some finite ones that make aspects, and the
\* three that are not finite (a missing longitude reads as NaN)
MalformedLons == { 0, Deg(1), Deg(60), Deg(120), Deg(180), NaN, Infinity, NegInfinity }

\* the lists of up to MaxBodies + 1 bodies over these: the short ones, and
\* those with bodies whose longitude is not finite
MalformedInputs ==
    { BodyList(l) : l \in UNION { [1..n -> MalformedLons] : n \in 0..(MaxBodies + 1) } }

\* ------------------------------------------------- calculateHousePosition

\* a plausible slip: the cusp itself left to the house before it
MatchesOpenAtCusp(longitude, currentCusp, nextCusp) ==
    IF nextCusp > currentCusp
    THEN longitude > currentCusp /\ longitude <= nextCusp
    ELSE longitude > currentCusp \/ longitude <= nextCusp

\* a plausible slip: no wrap-around branch
MatchesNoWrap(longitude, currentCusp, nextCusp) ==
    longitude >= currentCusp /\ longitude < nextCusp

\* a plausible slip: the wrap-around branch open at its cusp
MatchesStrictWrap(longitude, currentCusp, nextCusp) ==
    IF Greater(nextCusp, currentCusp)
    THEN LessEq(currentCusp, longitude) /\ Greater(nextCusp, longitude)
    ELSE Greater(longitude, currentCusp) \/ Greater(nextCusp, longitude)

\* the two branches of the loop body: does the interval hold the longitude
IntervalMatches(longitude, currentCusp, nextCusp) ==
    IF Greater(nextCusp, currentCusp)
    THEN LessEq(currentCusp, longitude) /\ Greater(nextCusp, longitude)
    ELSE LessEq(currentCusp, longitude) \/ Greater(nextCusp, longitude)

\* return 1; // Default to 1st house
HouseFallback == 1

\* a plausible slip: the 0-based index of the matching interval returned
RECURSIVE HouseScanZeroBased(_, _, _)
HouseScanZeroBased(longitude, cusps, i) ==
    IF i >= Len(cusps) THEN HouseFallback
    ELSE IF IntervalMatches(longitude, cusps[i + 1], cusps[((i + 1) % Len(cusps)) + 1])
         THEN i
         ELSE HouseScanZeroBased(longitude, cusps, i + 1)

\* for (let i = 0; i < houseCusps.length; i++), from i (0-based) on
RECURSIVE HouseScan(_, _, _)
HouseScan(longitude, cusps, i) ==
    IF i >= Len(cusps) THEN HouseFallback
    ELSE IF IntervalMatches(longitude, cusps[i + 1], cusps[((i + 1) % Len(cusps)) + 1])
         THEN i + 1
         ELSE HouseScan(longitude, cusps, i + 1)

calculateHousePosition(longitude, cusps) == HouseScan(longitude, cusps, 0)

\* a cusp list from its first cusp and the widths (whole degrees) of its houses
RECURSIVE CuspsFrom(_, _)
CuspsFrom(start, widths) ==
    IF widths = << >> THEN << >>
    ELSE << start >> \o CuspsFrom((start + Deg(widths[1])) % Deg(360), Tail(widths))

\* widths of six houses that fill half the circle, each repeated opposite
HalfWidths ==
    { << a, b, c, 60 - a, 60 - b, 60 - c >> : a, b, c \in {20, 30, 40} }

\* first cusps of the twelve-house lists
CuspStarts == { 0, Deg(15) + 500, Deg(180), Deg(350), Deg(359) + 999 }

\* twelve cusps that increase around the circle and wrap once
TwelveCusps == { CuspsFrom(s, h \o h) : s \in CuspStarts, h \in HalfWidths }

\* the longest cusp list drawn freely (any order, repeats allowed)
MaxCusps == 3

FreeCuspVals == { 0, Deg(100), Deg(200), Deg(350) }

FreeCusps == UNION { [1..n -> FreeCuspVals] : n \in 0..MaxCusps }

HouseCuspInputs == TwelveCusps \cup FreeCusps

\* body longitudes tried against a cusp list: every 15 degrees, each cusp, and
\* one thousandth to either side of each cusp
BodyLonsFor(cusps) ==
    { Deg(15 * k) : k \in 0..23 } \cup { Deg(5), Deg(359) + 999 }
        \cup { (cusps[i] + e + Deg(360)) % Deg(360) : i \in DOMAIN cusps, e \in {-1, 0, 1} }

\* cusp lists and longitudes as an untyped caller can pass them: numbers that
\* are not finite included
MalformedCuspVals == { 0, Deg(100), Deg(350), NaN, Infinity, NegInfinity }

MalformedCusps == UNION { [1..n -> MalformedCuspVals] : n \in 0..MaxCusps }

MalformedBodyLons ==
    { 0, Deg(50), Deg(100), Deg(350), Deg(359) + 999, NaN, Infinity, NegInfinity }

\* ------------------------------------------- POST /api/calculate-chart

houseNames ==
    << "1st House (Self)", "2nd House (Resources)", "3rd House (Communication)",
       "4th House (Home)", "5th House (Creativity)", "6th House (Service)",
       "7th House (Partnership)", "8th House (Transformation)", "9th House (Philosophy)",
       "10th House (Career)", "11th House (Community)", "12th House (Spirituality)" >>

\* a plausible slip: the cusps pushed without the % 360
CuspsUnwrapped(ascendant) ==
    [ i \in 1..12 |-> ascendant + Deg(30) * (i - 1) ]

\* for (let i = 0; i < 12; i++) houseCusps.push((astroData.ascendant + i * 30) % 360)
SynthCusps(ascendant) ==
    [ i \in 1..12 |-> (ascendant + Deg(30) * (i - 1)) % Deg(360) ]

\* a plausible slip: the record's degree left unrounded
HouseRecordUnrounded(cusps, index) ==
    [ number |-> index,
      name   |-> houseNames[index],
      cusp   |-> cusps[index],
      sign   |-> SignAt(Floor30(cusps[index])),
      degree |-> Rem30(cusps[index]) ]

\* a plausible slip: the record numbered by its 0-based index
HouseRecordZeroBased(cusps, index) ==
    [ number |-> index - 1,
      name   |-> houseNames[index],
      cusp   |-> cusps[index],
      sign   |-> SignAt(Floor30(cusps[index])),
      degree |-> Round2(Rem30(cusps[index])) ]

\* the callback of houseCusps.map; index is 1-based here, so number = index
HouseRecord(cusps, index) ==
    [ number |-> index,
      name   |-> houseNames[index],
      cusp   |-> cusps[index],
      sign   |-> SignAt(Floor30(cusps[index])),
      degree |-> Round2(Rem30(cusps[index])) ]

houseInfo(cusps) == [ index \in 1..Len(cusps) |-> HouseRecord(cusps, index) ]

\* a plausible slip: a speed of 0 taken for backward motion
PlanetPositionNonPositive(planet) ==
    [ name       |-> planet.name,
      longitude  |-> planet.longitude,
      speed      |-> IF planet.hasSpeed /\ planet.speed # 0 THEN planet.speed ELSE 1,
      retrograde |-> planet.hasSpeed /\ planet.speed <= 0,
      sign       |-> getSignAndDegree(planet.longitude).sign,
      degree     |-> getSignAndDegree(planet.longitude).degree ]

\* the callback of astroData.planets.map
PlanetPosition(planet) ==
    [ name       |-> planet.name,
      longitude  |-> planet.longitude,
      speed      |-> IF planet.hasSpeed /\ planet.speed # 0 THEN planet.speed ELSE 1,
      retrograde |-> IF planet.hasSpeed /\ planet.speed # 0 THEN planet.speed < 0 ELSE FALSE,
      sign       |-> getSignAndDegree(planet.longitude).sign,
      degree     |-> getSignAndDegree(planet.longitude).degree ]

planetPositions(data) == [ i \in 1..Len(data.planets) |-> PlanetPosition(data.planets[i]) ]

\* planetPositions.find(p => p.name === n): the bodies of that name, first one first
FindByName(positions, n) ==
    LET hits == { i \in 1..Len(positions) : positions[i].name = n }
    IN  IF hits = {} THEN << >>
        ELSE << positions[CHOOSE i \in hits : \A j \in hits : i <= j] >>

\* the object the handler answers with on success
astrologyReading(req, coords, data) ==
    LET positions == planetPositions(data)
        cusps     == SynthCusps(data.ascendant)
    IN  [ byName     |-> [ n \in { BodyNames[i] : i \in DOMAIN BodyNames } |->
                             FindByName(positions, n) ],
          planets    |-> positions,
          aspects    |-> calculateAspects(positions),
          houses     |-> houseInfo(cusps),
          ascendant  |-> data.ascendant,
          midheaven  |-> data.midheaven,
          houseCusps |-> cusps,
          birthInfo  |-> [ date |-> req.date, time |-> req.time,
                           location |-> [ name      |-> req.location.name,
                                          latitude  |-> coords.latitude,
                                          longitude |-> coords.longitude ] ],
          timezone   |-> "UTC",
          chartDescription |-> "chart2txt" ]

\* JavaScript truthiness of a coordinate: present and not 0
Truthy(has, v) == has /\ v # 0

\* if (!date || !time || !location)
MissingParams(req) == req.date = "" \/ req.time = "" \/ ~req.location.present

\* if (location.latitude && location.longitude)
HasCoordinates(req) ==
    /\ Truthy(req.location.hasLat, req.location.latitude)
    /\ Truthy(req.location.hasLng, req.location.longitude)

NoCoordinates == [latitude |-> 0, longitude |-> 0, set |-> FALSE]

ErrorResponse(status, error) == [status |-> status, error |-> error, ok |-> FALSE]

\* the request bodies tried: a field missing, a place name alone, a place with
\* both coordinates, with one, and with a coordinate of 0
Locations ==
    { [present |-> FALSE, name |-> "", hasLat |-> FALSE, latitude |-> 0,
       hasLng |-> FALSE, longitude |-> 0] }
    \cup
    { [present |-> TRUE, name |-> "New York, NY", hasLat |-> hl, latitude |-> IF hl THEN la ELSE 0,
       hasLng |-> hg, longitude |-> IF hg THEN lo ELSE 0] :
         hl \in BOOLEAN, hg \in BOOLEAN, la \in {0, 40713}, lo \in {0, -74006} }

Requests ==
    { [date |-> d, time |-> t, location |-> l] :
        d \in {"", "1990-06-15"}, t \in {"", "14-30"}, l \in Locations }

\* what the geocoding service answers with
GeoAnswers == { [latitude |-> 51507, longitude |-> -128, set |-> TRUE] }

Body(n, l, hs, sp) == [name |-> n, longitude |-> l, hasSpeed |-> hs, speed |-> sp]

\* the body lists the ephemeris answers with
AstroPlanets ==
    { << >>,
      << Body("Sun", Deg(84) + 123, TRUE, 957), Body("Moon", Deg(264) + 996, TRUE, 13176) >>,
      << Body("Sun", Deg(10), TRUE, 1000), Body("Moon", Deg(70), TRUE, 12000),
         Body("Mercury", Deg(11) + 4, TRUE, -500), Body("Venus", Deg(190), FALSE, 0),
         Body("Mars", Deg(359) + 996, TRUE, 0), Body("Jupiter", Deg(130), TRUE, 80),
         Body("Saturn", Deg(250), TRUE, -30), Body("Uranus", Deg(29) + 996, TRUE, 10),
         Body("Neptune", Deg(280) + 500, TRUE, -5), Body("Pluto", Deg(220), TRUE, 3),
         Body("North Node", Deg(100), TRUE, -53) >> }

\* the ascendants the ephemeris answers with
Ascendants ==
    { Deg(d) + f : d \in {0, 15, 29, 100, 329, 345, 359}, f \in {0, 500, 996} }

Midheavens == { Deg(270), Deg(12) + 340 }

AstroAnswers ==
    { [planets |-> ps, ascendant |-> a, midheaven |-> m] :
        ps \in AstroPlanets, a \in Ascendants, m \in Midheavens }

NoAstroData == [planets |-> << >>, ascendant |-> 0, midheaven |-> 0]

NoReading == [none |-> TRUE]

NoResponse == [status |-> 0, error |-> "", ok |-> FALSE]

\* ------------------------------------------------------- TerminalBirthForm

\* a coordinate of the city table, in ten-thousandths of a degree
Coord(whole, frac) == IF whole < 0 THEN whole * 10000 - frac ELSE whole * 10000 + frac

cities ==
    [ c \in { "new york", "los angeles", "chicago", "london", "paris", "tokyo", "sydney",
              "berlin", "moscow", "mumbai", "beijing", "san francisco", "dubai",
              "singapore" } |->
        CASE c = "new york"      -> [lat |-> Coord(40, 7128),  lng |-> Coord(-74, 60)]
          [] c = "los angeles"   -> [lat |-> Coord(34, 522),   lng |-> Coord(-118, 2437)]
          [] c = "chicago"       -> [lat |-> Coord(41, 8781),  lng |-> Coord(-87, 6298)]
          [] c = "london"        -> [lat |-> Coord(51, 5074),  lng |-> 0 - 1278]
          [] c = "paris"         -> [lat |-> Coord(48, 8566),  lng |-> Coord(2, 3522)]
          [] c = "tokyo"         -> [lat |-> Coord(35, 6762),  lng |-> Coord(139, 6503)]
          [] c = "sydney"        -> [lat |-> Coord(-33, 8688), lng |-> Coord(151, 2093)]
          [] c = "berlin"        -> [lat |-> Coord(52, 5200),  lng |-> Coord(13, 4050)]
          [] c = "moscow"        -> [lat |-> Coord(55, 7558),  lng |-> Coord(37, 6173)]
          [] c = "mumbai"        -> [lat |-> Coord(19, 760),   lng |-> Coord(72, 8777)]
          [] c = "beijing"       -> [lat |-> Coord(39, 9042),  lng |-> Coord(116, 4074)]
          [] c = "san francisco" -> [lat |-> Coord(37, 7749),  lng |-> Coord(-122, 4194)]
          [] c = "dubai"         -> [lat |-> Coord(25, 2048),  lng |-> Coord(55, 2708)]
          [] c = "singapore"     -> [lat |-> Coord(1, 3521),   lng |-> Coord(103, 8198)] ]

\* what the user can leave in the location field
LocationTexts == { "", "lon", "london", "London", "londonderry", "paris", "Paris, TX", "atlantis" }

\* location.toLowerCase()
toLowerCase(text) ==
    CASE text = "London"    -> "london"
      [] text = "Paris, TX" -> "paris, tx"
      [] OTHER              -> text

DateTexts == { "", "1990-06-15" }

TimeTexts == { "", "14:30" }

\* formData.time + ':00'
WithSeconds(time) == IF time = "14:30" THEN "14:30:00" ELSE ":00"

\* useState({ date: '', time: '', location: '', latitude: 0, longitude: 0 })
FormDefaults == [date |-> "", time |-> "", location |-> "", latitude |-> 0, longitude |-> 0]

\* handleSubmit was not called yet
NoOutcome == [kind |-> "none"]

FormIdle == formData = FormDefaults /\ formOut = NoOutcome

\* ---------------------------------------------------------- specifications

SignIdle    == lon = 0 /\ signOut = NoResult
AspectIdle  == planets = << >> /\ aspects = << >>
HouseIdle   == bodyLon = 0 /\ houseCusps = << >> /\ houseOut = 0
NoItem  == [none |-> TRUE]
NoFetch == [state |-> "none"]

PageIdle ==
    /\ mounted = FALSE
    /\ currentView = "form"
    /\ pageReading = NoReading
    /\ pageLoading = FALSE
    /\ chartData = NoItem
    /\ chartFetch = NoFetch
    /\ chartCalls = 0
    /\ alerts = 0
    /\ reloads = 0

ChatIdle ==
    /\ messages = << >>
    /\ chatLoading = FALSE
    /\ explanationsLoaded = FALSE
    /\ tasks = << >>
    /\ sends = 0
    /\ explCache = << >>
    /\ explFetches = << >>
    /\ explCalls = 0
    /\ now = 0

ClientIdle == PageIdle /\ ChatIdle /\ FormIdle

HandlerIdle ==
    /\ hpc = "idle"
    /\ request = [date |-> "", time |-> "", location |-> CHOOSE l \in Locations : ~l.present]
    /\ geo = "none" /\ geoCalls = 0
    /\ astro = "none" /\ astroCalls = 0
    /\ coordinates = NoCoordinates
    /\ astroData = NoAstroData
    /\ reading = NoReading
    /\ response = NoResponse

\* getSignAndDegree applied to one longitude
InitSign ==
    /\ fpc = "call"
    /\ lon \in SignLons
    /\ signOut = NoResult
    /\ AspectIdle /\ HouseIdle /\ HandlerIdle /\ ClientIdle

CallGetSignAndDegree ==
    /\ fpc = "call"
    /\ signOut' = getSignAndDegree(lon)
    /\ fpc' = "done"
    /\ UNCHANGED <<clientVars, lon, aspectVars, houseVars, handlerVars>>

NextSign == CallGetSignAndDegree

SpecSign == InitSign /\ [][NextSign]_vars

\* calculateAspects applied to one list of bodies
InitAspects ==
    /\ fpc = "call"
    /\ planets \in AspectInputs
    /\ aspects = << >>
    /\ SignIdle /\ HouseIdle /\ HandlerIdle /\ ClientIdle

CallCalculateAspects ==
    /\ fpc = "call"
    /\ aspects' = calculateAspects(planets)
    /\ fpc' = "done"
    /\ UNCHANGED <<clientVars, planets, signVars, houseVars, handlerVars>>

NextAspects == CallCalculateAspects

SpecAspects == InitAspects /\ [][NextAspects]_vars

\* calculateAspects applied to one malformed list
InitMalformed ==
    /\ fpc = "call"
    /\ planets \in MalformedInputs
    /\ aspects = << >>
    /\ SignIdle /\ HouseIdle /\ HandlerIdle /\ ClientIdle

SpecMalformed == InitMalformed /\ [][NextAspects]_vars

\* calculateHousePosition applied to one longitude and one cusp list
InitHouse ==
    /\ fpc = "call"
    /\ houseCusps \in HouseCuspInputs
    /\ bodyLon \in BodyLonsFor(houseCusps)
    /\ houseOut = 0
    /\ SignIdle /\ AspectIdle /\ HandlerIdle /\ ClientIdle

CallCalculateHousePosition ==
    /\ fpc = "call"
    /\ houseOut' = calculateHousePosition(bodyLon, houseCusps)
    /\ fpc' = "done"
    /\ UNCHANGED <<clientVars, bodyLon, houseCusps, signVars, aspectVars, handlerVars>>

NextHouse == CallCalculateHousePosition

SpecHouse == InitHouse /\ [][NextHouse]_vars

\* calculateHousePosition applied to values that need not be finite numbers
InitHouseMalformed ==
    /\ fpc = "call"
    /\ houseCusps \in MalformedCusps
    /\ bodyLon \in MalformedBodyLons
    /\ houseOut = 0
    /\ SignIdle /\ AspectIdle /\ HandlerIdle /\ ClientIdle

SpecHouseMalformed == InitHouseMalformed /\ [][NextHouse]_vars

\* calculateHousePosition applied to the cusps the handler synthesises
InitEqualHouse ==
    /\ fpc = "call"
    /\ \E ascendant \in Ascendants : houseCusps = SynthCusps(ascendant)
    /\ bodyLon \in BodyLonsFor(houseCusps)
    /\ houseOut = 0
    /\ SignIdle /\ AspectIdle /\ HandlerIdle /\ ClientIdle

SpecEqualHouse == InitEqualHouse /\ [][NextHouse]_vars

\* one request to POST /api/calculate-chart, from the parsed body on
InitHandler ==
    /\ fpc = "idle"
    /\ SignIdle /\ AspectIdle /\ HouseIdle /\ ClientIdle
    /\ hpc = "received"
    /\ request \in Requests
    /\ geo = "none" /\ geoCalls = 0
    /\ astro = "none" /\ astroCalls = 0
    /\ coordinates = NoCoordinates
    /\ astroData = NoAstroData
    /\ reading = NoReading
    /\ response = NoResponse

\* if (!date || !time || !location) return 400
PostMissingParams ==
    /\ hpc = "received"
    /\ MissingParams(request)
    /\ response' = ErrorResponse(400, "Missing required parameters: date, time, location")
    /\ hpc' = "responded"
    /\ UNCHANGED <<clientVars, fpc, signVars, aspectVars, houseVars, request, geo, geoCalls, astro,
                   astroCalls, coordinates, astroData, reading>>

\* the request's own coordinates, then the ephemeris fetch is issued
PostUseCoordinates ==
    /\ hpc = "received"
    /\ ~MissingParams(request)
    /\ HasCoordinates(request)
    /\ coordinates' = [latitude |-> request.location.latitude,
                       longitude |-> request.location.longitude, set |-> TRUE]
    /\ astro' = "pending"
    /\ astroCalls' = astroCalls + 1
    /\ hpc' = "ephemeris"
    /\ UNCHANGED <<clientVars, fpc, signVars, aspectVars, houseVars, request, geo, geoCalls,
                   astroData, reading, response>>

\* coordinates = await geocodeLocation(...): the geocoding fetch is issued
PostGeocode ==
    /\ hpc = "received"
    /\ ~MissingParams(request)
    /\ ~HasCoordinates(request)
    /\ geo' = "pending"
    /\ geoCalls' = geoCalls + 1
    /\ hpc' = "geocoding"
    /\ UNCHANGED <<clientVars, fpc, signVars, aspectVars, houseVars, request, astro, astroCalls,
                   coordinates, astroData, reading, response>>

\* geocodeLocation resolves; the ephemeris fetch is issued
GeocodeOk ==
    /\ hpc = "geocoding" /\ geo = "pending"
    /\ geo' = "ok"
    /\ coordinates' \in GeoAnswers
    /\ astro' = "pending"
    /\ astroCalls' = astroCalls + 1
    /\ hpc' = "ephemeris"
    /\ UNCHANGED <<clientVars, fpc, signVars, aspectVars, houseVars, request, geoCalls,
                   astroData, reading, response>>

\* geocodeLocation throws (fetch failed, no feature found); POST's catch answers
GeocodeFail ==
    /\ hpc = "geocoding" /\ geo = "pending"
    /\ geo' = "failed"
    /\ response' = ErrorResponse(500,
           "Failed to calculate astrology chart: Failed to geocode location")
    /\ hpc' = "responded"
    /\ UNCHANGED <<clientVars, fpc, signVars, aspectVars, houseVars, request, geoCalls, astro,
                   astroCalls, coordinates, astroData, reading>>

\* getPlanetaryPositions resolves; the rest of the handler runs and answers
EphemerisOk ==
    /\ hpc = "ephemeris" /\ astro = "pending"
    /\ \E data \in AstroAnswers :
         /\ astroData' = data
         /\ reading' = astrologyReading(request, coordinates, data)
    /\ astro' = "ok"
    /\ response' = [status |-> 200, error |-> "", ok |-> TRUE]
    /\ hpc' = "responded"
    /\ UNCHANGED <<clientVars, fpc, signVars, aspectVars, houseVars, request, geo, geoCalls,
                   astroCalls, coordinates>>

\* a plausible slip: a failed ephemeris fetch answered with a reading of defaults
EphemerisFailDefaults ==
    /\ hpc = "ephemeris" /\ astro = "pending"
    /\ astro' = "failed"
    /\ reading' = astrologyReading(request, coordinates, NoAstroData)
    /\ response' = [status |-> 200, error |-> "", ok |-> TRUE]
    /\ hpc' = "responded"
    /\ UNCHANGED <<clientVars, fpc, signVars, aspectVars, houseVars, request, geo, geoCalls,
                   astroCalls, coordinates, astroData>>

\* getPlanetaryPositions throws (fetch failed, status not ok); POST's catch answers
EphemerisFail ==
    /\ hpc = "ephemeris" /\ astro = "pending"
    /\ astro' = "failed"
    /\ response' = ErrorResponse(500,
           "Failed to calculate astrology chart: Failed to get astrological data")
    /\ hpc' = "responded"
    /\ UNCHANGED <<clientVars, fpc, signVars, aspectVars, houseVars, request, geo, geoCalls,
                   astroCalls, coordinates, astroData, reading>>

NextHandler ==
    \/ PostMissingParams
    \/ PostUseCoordinates
    \/ PostGeocode
    \/ GeocodeOk
    \/ GeocodeFail
    \/ EphemerisOk
    \/ EphemerisFail

SpecHandler == InitHandler /\ [][NextHandler]_vars

\* --------------------------------------------------------------------- JSON
\* A JSON text is kept as a tree of the same shape as the value; its leaves are
\* the texts of the primitives.  A number's text is its sign, its whole part and
\* the decimals it is written with (no trailing zero), a string's text is the
\* string, a boolean's the literal; a property whose value is undefined is left
\* out of its object.

\* the decimals of f thousandths, as JSON.stringify writes them
FracDigits(f) ==
    IF f = 0 THEN << >>
    ELSE IF f % 100 = 0 THEN << f \div 100 >>
    ELSE IF f % 10 = 0 THEN << f \div 100, (f \div 10) % 10 >>
    ELSE << f \div 100, (f \div 10) % 10, f % 10 >>

\* the thousandths that a run of decimals stands for, as JSON.parse reads them
FracValue(ds) ==
    (IF Len(ds) >= 1 THEN ds[1] * 100 ELSE 0)
    + (IF Len(ds) >= 2 THEN ds[2] * 10 ELSE 0)
    + (IF Len(ds) >= 3 THEN ds[3] ELSE 0)

\* a number held in thousandths
NumberText(n)  == [neg |-> n < 0, int |-> Abs(n) \div 1000, frac |-> FracDigits(Abs(n) % 1000)]
NumberValue(t) == (IF t.neg THEN -1 ELSE 1) * (t.int * 1000 + FracValue(t.frac))

\* a number held as a whole count
CountText(n)  == [neg |-> n < 0, int |-> Abs(n), frac |-> << >>]
CountValue(t) == (IF t.neg THEN -1 ELSE 1) * t.int

StringText(s)  == [str |-> s]
BooleanText(b) == [lit |-> IF b THEN "true" ELSE "false"]

\* the keys an object is written with: those whose value is not undefined
Written(keys, obj) == { k \in keys : obj[k] # "undefined" }

\* the value read at a key: undefined where the key is absent
StringAt(t, k) == IF k \in DOMAIN t THEN t[k].str ELSE "undefined"

PlanetText(p) ==
    [ k \in {"name", "longitude", "speed", "retrograde", "degree"} \cup Written({"sign"}, p) |->
        CASE k = "name"       -> StringText(p.name)
          [] k = "longitude"  -> NumberText(p.longitude)
          [] k = "speed"      -> NumberText(p.speed)
          [] k = "retrograde" -> BooleanText(p.retrograde)
          [] k = "sign"       -> StringText(p.sign)
          [] k = "degree"     -> NumberText(p.degree) ]

PlanetValue(t) ==
    [ name       |-> t.name.str,
      longitude  |-> NumberValue(t.longitude),
      speed      |-> NumberValue(t.speed),
      retrograde |-> t.retrograde.lit = "true",
      sign       |-> StringAt(t, "sign"),
      degree     |-> NumberValue(t.degree) ]

AspectText(a) ==
    [ planet1      |-> StringText(a.planet1),
      planet2      |-> StringText(a.planet2),
      aspect       |-> StringText(a.aspect),
      orb          |-> NumberText(a.orb),
      exactDegrees |-> CountText(a.exactDegrees) ]

AspectValue(t) ==
    [ planet1      |-> t.planet1.str,
      planet2      |-> t.planet2.str,
      aspect       |-> t.aspect.str,
      orb          |-> NumberValue(t.orb),
      exactDegrees |-> CountValue(t.exactDegrees) ]

HouseText(h) ==
    [ k \in {"number", "name", "cusp", "degree"} \cup Written({"sign"}, h) |->
        CASE k = "number" -> CountText(h.number)
          [] k = "name"   -> StringText(h.name)
          [] k = "cusp"   -> NumberText(h.cusp)
          [] k = "sign"   -> StringText(h.sign)
          [] k = "degree" -> NumberText(h.degree) ]

HouseValue(t) ==
    [ number |-> CountValue(t.number),
      name   |-> t.name.str,
      cusp   |-> NumberValue(t.cusp),
      sign   |-> StringAt(t, "sign"),
      degree |-> NumberValue(t.degree) ]

BirthInfoText(b) ==
    [ date     |-> StringText(b.date),
      time     |-> StringText(b.time),
      location |-> [ name      |-> StringText(b.location.name),
                     latitude  |-> NumberText(b.location.latitude),
                     longitude |-> NumberText(b.location.longitude) ] ]

BirthInfoValue(t) ==
    [ date     |-> t.date.str,
      time     |-> t.time.str,
      location |-> [ name      |-> t.location.name.str,
                     latitude  |-> NumberValue(t.location.latitude),
                     longitude |-> NumberValue(t.location.longitude) ] ]

\* JSON.stringify of a reading
JSONstringify(r) ==
    [ byName     |-> [ n \in { m \in DOMAIN r.byName : r.byName[m] # << >> } |->
                         PlanetText(r.byName[n][1]) ],
      planets    |-> [ i \in DOMAIN r.planets |-> PlanetText(r.planets[i]) ],
      aspects    |-> [ i \in DOMAIN r.aspects |-> AspectText(r.aspects[i]) ],
      houses     |-> [ i \in DOMAIN r.houses |-> HouseText(r.houses[i]) ],
      ascendant  |-> NumberText(r.ascendant),
      midheaven  |-> NumberText(r.midheaven),
      houseCusps |-> [ i \in DOMAIN r.houseCusps |-> NumberText(r.houseCusps[i]) ],
      birthInfo  |-> BirthInfoText(r.birthInfo),
      timezone   |-> StringText(r.timezone),
      chartDescription |-> StringText(r.chartDescription) ]

\* JSON.parse of the text of a reading
JSONparse(t) ==
    [ byName     |-> [ n \in { BodyNames[i] : i \in DOMAIN BodyNames } |->
                         IF n \in DOMAIN t.byName THEN << PlanetValue(t.byName[n]) >>
                         ELSE << >> ],
      planets    |-> [ i \in DOMAIN t.planets |-> PlanetValue(t.planets[i]) ],
      aspects    |-> [ i \in DOMAIN t.aspects |-> AspectValue(t.aspects[i]) ],
      houses     |-> [ i \in DOMAIN t.houses |-> HouseValue(t.houses[i]) ],
      ascendant  |-> NumberValue(t.ascendant),
      midheaven  |-> NumberValue(t.midheaven),
      houseCusps |-> [ i \in DOMAIN t.houseCusps |-> NumberValue(t.houseCusps[i]) ],
      birthInfo  |-> BirthInfoValue(t.birthInfo),
      timezone   |-> t.timezone.str,
      chartDescription |-> t.chartDescription.str ]

\* a stored text that JSON.parse throws on
CorruptItem == [corrupt |-> TRUE]

\* --------------------------------------------------------------------- page

MaxChartCalls == 2

serverVars == <<fpc, signVars, aspectVars, houseVars, handlerVars>>

\* what TerminalBirthForm hands to onSubmit: a date, a time with ':00' appended,
\* and a city of its table with that city's coordinates
BirthInfos ==
    { [ date |-> "1990-06-15", time |-> "14:30:00",
        location |-> [name |-> "new york", latitude |-> 40713, longitude |-> -74006] ],
      [ date |-> "1985-01-02", time |-> "06:05:00",
        location |-> [name |-> "london", latitude |-> 51507, longitude |-> -128] ] }

\* the body the handler parses out of JSON.stringify(birthInfo)
RequestOf(b) ==
    [ date |-> b.date, time |-> b.time,
      location |-> [ present |-> TRUE, name |-> b.location.name,
                     hasLat |-> TRUE, latitude |-> b.location.latitude,
                     hasLng |-> TRUE, longitude |-> b.location.longitude ] ]

\* what the ephemeris answers the page's requests with: three bodies, one of
\* them moving backward
PageAstroAnswers ==
    { [ planets   |-> << Body("Sun", Deg(84) + 123, TRUE, 957),
                         Body("Moon", Deg(264) + 996, TRUE, 13176),
                         Body("Mercury", Deg(71) + 4, TRUE, -500) >>,
        ascendant |-> Deg(15) + 500,
        midheaven |-> Deg(270) ] }

\* the body of a 200 answer: NextResponse.json(astrologyReading), the request
\* carrying its own coordinates
ChartBody(b, data) ==
    JSONstringify(astrologyReading(RequestOf(b),
                                   [ latitude |-> b.location.latitude,
                                     longitude |-> b.location.longitude, set |-> TRUE ],
                                   data))

\* a plausible slip: the longitudes saved with two decimals
SavedItemRounded(r) ==
    JSONstringify([ r EXCEPT !.planets =
                      [ i \in DOMAIN r.planets |->
                          [ r.planets[i] EXCEPT !.longitude = Round2(@) ] ] ])

\* localStorage.setItem('astroChartData', JSON.stringify(reading)): the item
SavedItem(r) == JSONstringify(r)

\* --------------------------------------------------------------------- chat

MaxPlanetKeys == 2
MaxSends      == 1
MaxReloads    == 1
MaxClock      == 2

\* one step of the clock, and the age at which a cached entry expires, in ms
TickStep        == 12 * 60 * 60 * 1000
twentyFourHours == 24 * 60 * 60 * 1000

DayMs == 24 * 60 * 60 * 1000

\* new Date().toISOString(): the day and the time of day, to the millisecond
toISOString(t) == [day |-> t \div DayMs, ms |-> t % DayMs]

\* new Date(timestamp).getTime()
getTime(iso) == iso.day * DayMs + iso.ms

DateNow == now * TickStep

planetKeys ==
    << "sun", "moon", "mercury", "venus", "mars", "jupiter", "saturn", "uranus",
       "neptune", "pluto", "northNode" >>

\* the planet keys a query is put to here: the first MaxPlanetKeys of the list
KeyIndexes == 1..MaxPlanetKeys

\* no request issued
NoBody == [none |-> TRUE]

NoTasks == [ i \in KeyIndexes |-> [state |-> "none", body |-> NoBody] ]

\* data.explanations of an ok answer of the chart-explanations endpoint: titles
ExplanationAnswers ==
    { << "Overview", "Sun", "Moon", "Rising", "Aspects", "Houses", "Summary" >> }

\* what the user types
Queries == { "", "  ", "why?" }

\* inputValue.trim()
Trim(q) == IF q = "  " THEN "" ELSE q

NoCache == [ b \in BirthInfos |-> NoItem ]

explanationMessages(explanations) ==
    [ index \in DOMAIN explanations |->
        [ character |-> "astrologer", id |-> index - 1, content |-> explanations[index] ] ]

\* character.toUpperCase() for the characters a message can carry
toUpperCase(character) ==
    CASE character = "astrologer" -> "ASTROLOGER"
      [] character = "sun"        -> "SUN"
      [] character = "moon"       -> "MOON"
      [] character = "mercury"    -> "MERCURY"
      [] character = "venus"      -> "VENUS"
      [] character = "mars"       -> "MARS"
      [] character = "jupiter"    -> "JUPITER"
      [] character = "saturn"     -> "SATURN"
      [] character = "uranus"     -> "URANUS"
      [] character = "neptune"    -> "NEPTUNE"
      [] character = "pluto"      -> "PLUTO"
      [] character = "northNode"  -> "NORTHNODE"
      [] OTHER                    -> "USER"

\* the callback of messages.slice(-6).map: role, and the content behind its
\* speaker's prefix
HistoryEntry(msg) ==
    [ role    |-> IF msg.character = "user" THEN "user" ELSE "assistant",
      content |-> << IF msg.character = "user" THEN "USER" ELSE toUpperCase(msg.character),
                     msg.content >> ]

\* a plausible slip: the whole transcript sent as history
wholeTranscript(msgs) == [ k \in DOMAIN msgs |-> HistoryEntry(msgs[k]) ]

\* messages.slice(-6).map(...)
recentMessages(msgs) ==
    LET from == IF Len(msgs) > 6 THEN Len(msgs) - 5 ELSE 1
    IN  [ k \in 1..(Len(msgs) - from + 1) |-> HistoryEntry(msgs[from + k - 1]) ]

\* generateSystemPrompt: the character's instructions, which end with the question
generateSystemPrompt(planet, query) == [ character |-> planet, question |-> query ]

\* the body generatePlanetResponse posts to /api/chat for one planet, built from
\* the messages of the render that handled the key press
RequestBody(planet, query, msgs) ==
    [ systemPrompt        |-> generateSystemPrompt(planet, query),
      userMessage         |-> query,
      conversationHistory |-> recentMessages(msgs) ]

\* the messages POST /api/chat sends on to the language model
ChatMessages(body) ==
    << [role |-> "system", content |-> body.systemPrompt] >>
        \o body.conversationHistory
        \o << [role |-> "user", content |-> body.userMessage] >>

\* a plausible slip: an entry still served at the age of exactly 24 hours
NotOlderThanADay(entry) == DateNow - getTime(entry.timestamp) <= twentyFourHours

\* cacheAge < twentyFourHours
FreshEnough(entry) == DateNow - getTime(entry.timestamp) < twentyFourHours

\* TerminalChat is rendered
ChatMounted == mounted /\ currentView = "chat" /\ pageReading # NoReading

\* TerminalChat is rendered for reading r: its state at the useState defaults,
\* then loadDefaultExplanations up to its await or, with a cached entry that is
\* young enough, to its end
ChatMount(r) ==
    LET cached == explCache[r.birthInfo]
    IN  /\ chatLoading' = FALSE
        /\ tasks' = NoTasks
        /\ IF cached # NoItem /\ FreshEnough(cached)
             THEN /\ messages' = explanationMessages(cached.explanations)
                  /\ explanationsLoaded' = TRUE
                  /\ UNCHANGED <<explFetches, explCalls>>
             ELSE /\ messages' = << >>
                  /\ explanationsLoaded' = FALSE
                  /\ explFetches' = Append(explFetches, [cacheKey |-> r.birthInfo, live |-> TRUE])
                  /\ explCalls' = explCalls + 1
        /\ UNCHANGED <<sends, explCache, now>>

\* TerminalChat's state is gone
ChatGone ==
    /\ messages' = << >>
    /\ chatLoading' = FALSE
    /\ explanationsLoaded' = FALSE
    /\ tasks' = NoTasks

\* the page is loaded: state at its useState defaults, the mount effect not yet run
InitPage ==
    /\ fpc = "idle"
    /\ SignIdle /\ AspectIdle /\ HouseIdle /\ HandlerIdle
    /\ mounted = FALSE
    /\ currentView = "form"
    /\ pageReading = NoReading
    /\ pageLoading = FALSE
    /\ chartData \in {NoItem, CorruptItem}
    /\ chartFetch = NoFetch
    /\ chartCalls = 0
    /\ alerts = 0
    /\ reloads = 0
    /\ messages = << >>
    /\ chatLoading = FALSE
    /\ explanationsLoaded = FALSE
    /\ tasks = NoTasks
    /\ sends = 0
    /\ explCache = NoCache
    /\ explFetches = << >>
    /\ explCalls = 0
    /\ now = 0
    /\ FormIdle

\* a plausible slip: the mount effect discarding what was saved
MountDiscarding ==
    /\ ~mounted
    /\ mounted' = TRUE
    /\ chartData' = NoItem
    /\ UNCHANGED <<serverVars, formVars, currentView, pageReading, pageLoading, chartFetch,
                   chartCalls, alerts, reloads, chatVars, explVars, now>>

\* the mount effect; with a reading restored, TerminalChat is rendered
Mount ==
    /\ ~mounted
    /\ mounted' = TRUE
    /\ IF chartData = NoItem
         THEN UNCHANGED <<currentView, pageReading, chartData, chatVars, explVars, now>>
       ELSE IF chartData = CorruptItem
         THEN /\ chartData' = NoItem
              /\ UNCHANGED <<currentView, pageReading, chatVars, explVars, now>>
       ELSE /\ pageReading' = JSONparse(chartData)
            /\ currentView' = "chat"
            /\ ChatMount(JSONparse(chartData))
            /\ UNCHANGED chartData
    /\ UNCHANGED <<serverVars, formVars, pageLoading, chartFetch, chartCalls, alerts, reloads>>

\* the browser reloads the page: the components' state is constructed anew, what
\* was awaiting an answer is gone, localStorage stays
Reload ==
    /\ mounted
    /\ reloads < MaxReloads
    /\ reloads' = reloads + 1
    /\ mounted' = FALSE
    /\ currentView' = "form"
    /\ pageReading' = NoReading
    /\ pageLoading' = FALSE
    /\ chartFetch' = NoFetch
    /\ ChatGone
    /\ explFetches' = << >>
    /\ UNCHANGED <<serverVars, formVars, chartData, chartCalls, alerts, sends, explCache, explCalls, now>>

\* handleBirthInfoSubmit up to its await; the form's button is disabled while loading
Submit ==
    /\ mounted /\ currentView = "form" /\ ~pageLoading
    /\ chartCalls < MaxChartCalls
    /\ \E b \in BirthInfos : chartFetch' = [state |-> "pending", birthInfo |-> b]
    /\ pageLoading' = TRUE
    /\ chartCalls' = chartCalls + 1
    /\ UNCHANGED <<serverVars, formVars, mounted, currentView, pageReading, chartData, alerts,
                   reloads, chatVars, explVars, now>>

\* the fetch resolves with an ok response: the rest of the try block, then
\* finally; TerminalChat is rendered
ChartOk ==
    /\ chartFetch.state = "pending"
    /\ \E data \in PageAstroAnswers :
         LET r == JSONparse(ChartBody(chartFetch.birthInfo, data))
         IN  /\ chartData' = SavedItem(r)
             /\ pageReading' = r
             /\ ChatMount(r)
    /\ currentView' = "chat"
    /\ pageLoading' = FALSE
    /\ chartFetch' = [chartFetch EXCEPT !.state = "ok"]
    /\ UNCHANGED <<serverVars, formVars, mounted, chartCalls, alerts, reloads>>

\* a plausible slip: the failure path without the finally block
ChartNotOkStillLoading ==
    /\ chartFetch.state = "pending"
    /\ alerts' = alerts + 1
    /\ chartFetch' = [chartFetch EXCEPT !.state = "notOk"]
    /\ UNCHANGED <<serverVars, formVars, mounted, currentView, pageReading, pageLoading, chartData,
                   chartCalls, reloads, chatVars, explVars, now>>

\* the fetch resolves with a response that is not ok: throw, catch, finally
ChartNotOk ==
    /\ chartFetch.state = "pending"
    /\ alerts' = alerts + 1
    /\ pageLoading' = FALSE
    /\ chartFetch' = [chartFetch EXCEPT !.state = "notOk"]
    /\ UNCHANGED <<serverVars, formVars, mounted, currentView, pageReading, chartData, chartCalls,
                   reloads, chatVars, explVars, now>>

\* the fetch rejects: catch, finally
ChartNetworkError ==
    /\ chartFetch.state = "pending"
    /\ alerts' = alerts + 1
    /\ pageLoading' = FALSE
    /\ chartFetch' = [chartFetch EXCEPT !.state = "networkError"]
    /\ UNCHANGED <<serverVars, formVars, mounted, currentView, pageReading, chartData, chartCalls,
                   reloads, chatVars, explVars, now>>

\* a plausible slip: Back without the removeItem
BackKeepingItem ==
    /\ ChatMounted
    /\ currentView' = "form"
    /\ pageReading' = NoReading
    /\ ChatGone
    /\ UNCHANGED <<serverVars, formVars, mounted, pageLoading, chartData, chartFetch, chartCalls,
                   alerts, reloads, sends, explVars, now>>

\* the Back button of the chat view: the cached explanations of this reading
\* are removed, then handleBackToForm; TerminalChat is rendered no more, and
\* what it still awaits will find it gone
Back ==
    /\ ChatMounted
    /\ explCache' = [explCache EXCEPT ![pageReading.birthInfo] = NoItem]
    /\ chartData' = NoItem
    /\ currentView' = "form"
    /\ pageReading' = NoReading
    /\ ChatGone
    /\ explFetches' = [ i \in DOMAIN explFetches |-> [explFetches[i] EXCEPT !.live = FALSE] ]
    /\ UNCHANGED <<serverVars, formVars, mounted, pageLoading, chartFetch, chartCalls, alerts,
                   reloads, sends, explCalls, now>>

NextPage ==
    \/ Mount
    \/ Reload
    \/ Submit
    \/ ChartOk
    \/ ChartNotOk
    \/ ChartNetworkError
    \/ Back

SpecPage == InitPage /\ [][NextPage]_vars

\* handleSendMessage up to its await: the query joins the transcript and one
\* request per planet key is issued
Send ==
    /\ ChatMounted /\ ~chatLoading
    /\ sends < MaxSends
    /\ \E q \in Queries :
         /\ Trim(q) # ""
         /\ messages' = Append(messages, [character |-> "user", id |-> sends + 1, content |-> q])
         /\ tasks' = [ i \in KeyIndexes |->
                         [ state |-> "pending",
                           body  |-> RequestBody(planetKeys[i], q, messages) ] ]
    /\ chatLoading' = TRUE
    /\ sends' = sends + 1
    /\ UNCHANGED <<serverVars, formVars, pageVars, explanationsLoaded, explVars, now>>

\* generatePlanetResponse resolves: the reply waits for its timer
PlanetReplies(i) ==
    /\ ChatMounted /\ tasks[i].state = "pending"
    /\ tasks' = [tasks EXCEPT ![i] = [state |-> "replied", body |-> NoBody]]
    /\ UNCHANGED <<serverVars, formVars, pageVars, messages, chatLoading, explanationsLoaded, sends,
                   explVars, now>>

\* generatePlanetResponse throws: the error message waits for its timer
PlanetFails(i) ==
    /\ ChatMounted /\ tasks[i].state = "pending"
    /\ tasks' = [tasks EXCEPT ![i] = [state |-> "failed", body |-> NoBody]]
    /\ UNCHANGED <<serverVars, formVars, pageVars, messages, chatLoading, explanationsLoaded, sends,
                   explVars, now>>

\* a plausible slip: a failed planet dropped without a message
PlanetTimerSilentOnError(i) ==
    /\ ChatMounted /\ tasks[i].state \in {"replied", "failed"}
    /\ messages' = IF tasks[i].state = "replied"
                     THEN Append(messages, [ character |-> planetKeys[i], id |-> sends,
                                             content |-> "response" ])
                     ELSE messages
    /\ tasks' = [tasks EXCEPT ![i].state = "appended"]
    /\ UNCHANGED <<serverVars, formVars, pageVars, chatLoading, explanationsLoaded, sends, explVars, now>>

\* the timer of index * 200 ms fires: the reply or the error message is appended
PlanetTimer(i) ==
    /\ ChatMounted /\ tasks[i].state \in {"replied", "failed"}
    /\ messages' = Append(messages,
                          [ character |-> planetKeys[i], id |-> sends,
                            content |-> IF tasks[i].state = "replied" THEN "response"
                                        ELSE "ERROR: Connection failed" ])
    /\ tasks' = [tasks EXCEPT ![i].state = "appended"]
    /\ UNCHANGED <<serverVars, formVars, pageVars, chatLoading, explanationsLoaded, sends, explVars, now>>

\* a plausible slip: loading cleared at the end of the try block under
\* Promise.all, which a failed request skips
LoadingTimerOnSuccess ==
    /\ ChatMounted /\ chatLoading
    /\ \A i \in KeyIndexes :
          /\ tasks[i].state = "appended"
          /\ \E k \in DOMAIN messages :
                /\ messages[k].character = planetKeys[i] /\ messages[k].id = sends
                /\ messages[k].content = "response"
    /\ chatLoading' = FALSE
    /\ UNCHANGED <<serverVars, formVars, pageVars, messages, explanationsLoaded, tasks, sends,
                   explVars, now>>

\* a plausible slip: loading cleared as soon as Promise.allSettled resolves
LoadingCleared ==
    /\ ChatMounted /\ chatLoading
    /\ \A i \in KeyIndexes : tasks[i].state \in {"replied", "failed", "appended"}
    /\ chatLoading' = FALSE
    /\ UNCHANGED <<serverVars, formVars, pageVars, messages, explanationsLoaded, tasks, sends,
                   explVars, now>>

\* the timer set after Promise.allSettled fires, 3000 ms later: later than every
\* reply's timer, the longest of which is 2000 ms
LoadingTimer ==
    /\ ChatMounted /\ chatLoading
    /\ \A i \in KeyIndexes : tasks[i].state = "appended"
    /\ chatLoading' = FALSE
    /\ UNCHANGED <<serverVars, formVars, pageVars, messages, explanationsLoaded, tasks, sends,
                   explVars, now>>

\* explFetches without its i-th element
Without(fetches, i) ==
    [ j \in 1..(Len(fetches) - 1) |-> IF j < i THEN fetches[j] ELSE fetches[j + 1] ]

\* a chart-explanations fetch resolves with an ok response: the entry is cached
\* and, if the TerminalChat that asked is still rendered, the messages are set
ExplanationsOk(i) ==
    /\ \E e \in ExplanationAnswers :
         /\ explCache' = [explCache EXCEPT ![explFetches[i].cacheKey] =
                             [explanations |-> e, timestamp |-> toISOString(DateNow)]]
         /\ IF explFetches[i].live
              THEN messages' = explanationMessages(e) /\ explanationsLoaded' = TRUE
              ELSE UNCHANGED <<messages, explanationsLoaded>>
    /\ explFetches' = Without(explFetches, i)
    /\ UNCHANGED <<serverVars, formVars, pageVars, chatLoading, tasks, sends, explCalls, now>>

\* a chart-explanations fetch rejects or resolves with a response that is not ok
ExplanationsFail(i) ==
    /\ IF explFetches[i].live
         THEN messages' = << >> /\ explanationsLoaded' = TRUE
         ELSE UNCHANGED <<messages, explanationsLoaded>>
    /\ explFetches' = Without(explFetches, i)
    /\ UNCHANGED <<serverVars, formVars, pageVars, chatLoading, tasks, sends, explCache, explCalls, now>>

\* time passes
Tick ==
    /\ now < MaxClock
    /\ now' = now + 1
    /\ UNCHANGED <<serverVars, formVars, pageVars, chatVars, explVars>>

\* the page with its chat view and the default explanations of that view; no
\* query is sent
NextExplanations ==
    \/ Mount
    \/ Reload
    \/ Submit
    \/ ChartOk
    \/ Back
    \/ \E i \in DOMAIN explFetches : ExplanationsOk(i)
    \/ \E i \in DOMAIN explFetches : ExplanationsFail(i)
    \/ Tick

SpecExplanations == InitPage /\ [][NextExplanations]_vars

\* TerminalChat just rendered for a reading that the page has computed and
\* saved, nothing cached for it: the default explanations are being fetched
InitChat ==
    /\ fpc = "idle"
    /\ SignIdle /\ AspectIdle /\ HouseIdle /\ HandlerIdle
    /\ mounted = TRUE
    /\ currentView = "chat"
    /\ \E data \in PageAstroAnswers :
         LET b == CHOOSE c \in BirthInfos : c.location.name = "london"
         IN  /\ pageReading = JSONparse(ChartBody(b, data))
             /\ chartData = SavedItem(pageReading)
             /\ chartFetch = [state |-> "ok", birthInfo |-> b]
             /\ explFetches = << [cacheKey |-> b, live |-> TRUE] >>
    /\ pageLoading = FALSE
    /\ chartCalls = 1
    /\ alerts = 0
    /\ reloads = 0
    /\ messages = << >>
    /\ chatLoading = FALSE
    /\ explanationsLoaded = FALSE
    /\ tasks = NoTasks
    /\ sends = 0
    /\ explCache = NoCache
    /\ explCalls = 1
    /\ now = 0
    /\ FormIdle

\* the request of planet key i settles, one way or the other
PlanetSettles(i) == PlanetReplies(i) \/ PlanetFails(i)

\* the chat while it stays rendered for one reading
NextChat ==
    \/ Send
    \/ \E i \in KeyIndexes : PlanetReplies(i)
    \/ \E i \in KeyIndexes : PlanetFails(i)
    \/ \E i \in KeyIndexes : PlanetTimer(i)
    \/ LoadingTimer
    \/ \E i \in DOMAIN explFetches : ExplanationsOk(i)
    \/ \E i \in DOMAIN explFetches : ExplanationsFail(i)

\* every request settles and every timer that was set fires
FairChat ==
    /\ \A i \in KeyIndexes : WF_vars(PlanetSettles(i))
    /\ \A i \in KeyIndexes : WF_vars(PlanetTimer(i))
    /\ WF_vars(LoadingTimer)

SpecChat == InitChat /\ [][NextChat]_vars /\ FairChat

\* the birth form alone, rendered with loading false
InitForm ==
    /\ fpc = "idle"
    /\ SignIdle /\ AspectIdle /\ HouseIdle /\ HandlerIdle /\ ClientIdle

\* onChange of the date field
EditDate ==
    /\ \E date \in DateTexts : formData' = [formData EXCEPT !.date = date]
    /\ UNCHANGED <<serverVars, pageVars, chatVars, explVars, now, formOut>>

\* onChange of the time field
EditTime ==
    /\ \E time \in TimeTexts : formData' = [formData EXCEPT !.time = time]
    /\ UNCHANGED <<serverVars, pageVars, chatVars, explVars, now, formOut>>

\* a variant: the coordinates cleared when the text names no city
handleLocationChangeReset ==
    /\ \E location \in LocationTexts :
         LET key == toLowerCase(location)
         IN  formData' =
                 IF key \in DOMAIN cities
                 THEN [formData EXCEPT !.location = location,
                                       !.latitude = cities[key].lat,
                                       !.longitude = cities[key].lng]
                 ELSE [formData EXCEPT !.location = location,
                                       !.latitude = 0, !.longitude = 0]
    /\ UNCHANGED <<serverVars, pageVars, chatVars, explVars, now, formOut>>

\* onChange of the location field
handleLocationChange ==
    /\ \E location \in LocationTexts :
         LET key == toLowerCase(location)
         IN  formData' =
                 IF key \in DOMAIN cities
                 THEN [formData EXCEPT !.location = location,
                                       !.latitude = cities[key].lat,
                                       !.longitude = cities[key].lng]
                 ELSE [formData EXCEPT !.location = location]
    /\ UNCHANGED <<serverVars, pageVars, chatVars, explVars, now, formOut>>

\* the form is submitted
handleSubmit ==
    /\ formOut' =
          IF formData.date = "" \/ formData.time = "" \/ formData.location = ""
          THEN [kind |-> "missing"]
          ELSE IF formData.latitude = 0 /\ formData.longitude = 0
          THEN [kind |-> "unknown"]
          ELSE [ kind      |-> "submitted",
                 birthInfo |-> [ date     |-> formData.date,
                                 time     |-> WithSeconds(formData.time),
                                 location |-> [ name      |-> formData.location,
                                                latitude  |-> formData.latitude,
                                                longitude |-> formData.longitude ] ] ]
    /\ UNCHANGED <<serverVars, pageVars, chatVars, explVars, now, formData>>

NextForm ==
    \/ EditDate
    \/ EditTime
    \/ handleLocationChange
    \/ handleSubmit

SpecForm == InitForm /\ [][NextForm]_vars

\* ------------------------------------------------------------------ claims

\* position of a body name in BodyNames, which is a list's position of that body
PosOf(name) == CHOOSE i \in DOMAIN BodyNames : BodyNames[i] = name

\* the shorter of the two arcs between two longitudes
ShorterArc(l1, l2) ==
    LET d == Abs(l1 - l2) IN IF Deg(360) - d < d THEN Deg(360) - d ELSE d

\* the aspect table as the claims state it
ClaimedTable ==
    { [name |-> "Conjunction", degrees |-> 0,   orb |-> 8],
      [name |-> "Opposition",  degrees |-> 180, orb |-> 8],
      [name |-> "Trine",       degrees |-> 120, orb |-> 8],
      [name |-> "Square",      degrees |-> 90,  orb |-> 8],
      [name |-> "Sextile",     degrees |-> 60,  orb |-> 6],
      [name |-> "Quincunx",    degrees |-> 150, orb |-> 3] }

\* the entries of the table whose orb admits a separation
Within(sep) == { t \in ClaimedTable : Abs(sep - Deg(t.degrees)) <= Deg(t.orb) }

\* the places of the result that relate list positions i and j, in that order
EntriesOf(res, ps, i, j) ==
    { k \in DOMAIN res : res[k].planet1 = ps[i].name /\ res[k].planet2 = ps[j].name }

LonsOf(ps) == [ i \in DOMAIN ps |-> ps[i].longitude ]

\* the three pairs of longitudes the claim gives, with what it says they yield
C1_Examples ==
    /\ LonsOf(planets) = << 0, Deg(180) >> =>
         aspects = << [planet1 |-> "Sun", planet2 |-> "Moon", aspect |-> "Opposition",
                       orb |-> 0, exactDegrees |-> 180] >>
    /\ LonsOf(planets) = << Deg(10), Deg(70) >> =>
         aspects = << [planet1 |-> "Sun", planet2 |-> "Moon", aspect |-> "Sextile",
                       orb |-> 0, exactDegrees |-> 60] >>
    /\ LonsOf(planets) = << Deg(10), Deg(11) >> =>
         aspects = << [planet1 |-> "Sun", planet2 |-> "Moon", aspect |-> "Conjunction",
                       orb |-> Deg(1), exactDegrees |-> 0] >>

\* C1 as stated: once calculateAspects has returned, every pair i<j of the list
\* has its shorter arc in [0,180], has an entry in the result exactly when that
\* arc is within the orb of some table entry, and the entry carries that type,
\* its ideal angle and orb = |separation - ideal angle|, unrounded.
C1_OrbExact ==
    fpc = "done" =>
        /\ \A i, j \in DOMAIN planets : i < j =>
             LET sep  == ShorterArc(planets[i].longitude, planets[j].longitude)
                 hits == EntriesOf(aspects, planets, i, j)
             IN  /\ sep >= 0 /\ sep <= Deg(180)
                 /\ (Within(sep) = {}) <=> (hits = {})
                 /\ \A k \in hits : \E t \in Within(sep) :
                      /\ aspects[k].aspect = t.name
                      /\ aspects[k].exactDegrees = t.degrees
                      /\ aspects[k].orb = Abs(sep - Deg(t.degrees))
        /\ C1_Examples

\* C1 amended: as C1, with the recorded orb being |separation - ideal angle|
\* rounded to two decimal places.
C1_OrbRounded ==
    fpc = "done" =>
        /\ \A i, j \in DOMAIN planets : i < j =>
             LET sep  == ShorterArc(planets[i].longitude, planets[j].longitude)
                 hits == EntriesOf(aspects, planets, i, j)
             IN  /\ sep >= 0 /\ sep <= Deg(180)
                 /\ (Within(sep) = {}) <=> (hits = {})
                 /\ \A k \in hits : \E t \in Within(sep) :
                      /\ aspects[k].aspect = t.name
                      /\ aspects[k].exactDegrees = t.degrees
                      /\ aspects[k].orb = Round2(Abs(sep - Deg(t.degrees)))
        /\ C1_Examples

\* a list of three whose first pair lies across 360/0 and is recorded with a
\* rounded orb, and whose last pair is not recorded
C1_Witness ==
    /\ fpc = "done"
    /\ Len(planets) = 3
    /\ planets[1].longitude - planets[2].longitude > Deg(180)
    /\ \E k \in EntriesOf(aspects, planets, 1, 2) :
         aspects[k].orb # Abs(ShorterArc(planets[1].longitude, planets[2].longitude)
                               - Deg(aspects[k].exactDegrees))
    /\ EntriesOf(aspects, planets, 2, 3) = {}

\* the twelve signs in the order the claim gives them
ClaimedSigns ==
    << "Aries", "Taurus", "Gemini", "Cancer", "Leo", "Virgo",
       "Libra", "Scorpio", "Sagittarius", "Capricorn", "Aquarius", "Pisces" >>

\* C2: for a longitude in [0,360) getSignAndDegree returns the sign whose 30
\* degrees hold it, the k-th of the twelve for 30k <= L < 30(k+1), so that a
\* multiple of 30 has the sign starting there: 0 Aries, 30 Taurus, 29.99
\* Aries, 359.99 Pisces.
C2_SignOfLongitude ==
    (fpc = "done" /\ lon >= 0 /\ lon < Deg(360)) =>
        /\ \E k \in 0..11 :
             /\ Deg(30 * k) <= lon /\ lon < Deg(30 * (k + 1))
             /\ signOut.sign = ClaimedSigns[k + 1]
        /\ lon = 0 => signOut.sign = "Aries"
        /\ lon = Deg(30) => signOut.sign = "Taurus"
        /\ lon = Deg(29) + 990 => signOut.sign = "Aries"
        /\ lon = Deg(359) + 990 => signOut.sign = "Pisces"

\* the resolver has returned for a longitude that starts a sign other than Aries
C2_Witness ==
    /\ fpc = "done"
    /\ lon = Deg(330)
    /\ signOut.sign = "Pisces"

\* C7 as stated: for a longitude in [0,360) the degree returned is
\* L - 30*floor(L/30) rounded to two decimal places, and lies in [0,30).
C7_DegreeInSign ==
    (fpc = "done" /\ lon >= 0 /\ lon < Deg(360)) =>
        /\ signOut.degree = Round2(lon - Deg(30) * (lon \div Deg(30)))
        /\ signOut.degree >= 0
        /\ signOut.degree < Deg(30)

\* L lies in the half-open arc that runs forward around the circle from a to b
InArc(L, a, b) == (L - a + Deg(360)) % Deg(360) < (b - a + Deg(360)) % Deg(360)

\* the cusp after the i-th, around the list
NextCusp(cusps, i) == cusps[(i % Len(cusps)) + 1]

\* how far the cusp after the i-th lies ahead of the i-th, around the circle
Width(cusps, i) == (NextCusp(cusps, i) - cusps[i] + Deg(360)) % Deg(360)

RECURSIVE SumWidths(_, _)
SumWidths(cusps, i) ==
    IF i > Len(cusps) THEN 0 ELSE Width(cusps, i) + SumWidths(cusps, i + 1)

\* twelve cusps in [0,360), each ahead of the one before, once around in all
ValidCusps(cusps) ==
    /\ Len(cusps) = 12
    /\ \A i \in 1..12 : cusps[i] >= 0 /\ cusps[i] < Deg(360) /\ Width(cusps, i) > 0
    /\ SumWidths(cusps, 1) = Deg(360)

\* C3: with twelve valid cusps and a longitude in [0,360), exactly one half-open
\* arc [cusp[i], cusp[i+1 mod 12]) holds the longitude and calculateHousePosition
\* returns its number, in 1..12; cusps 350, 20, 50, ... put longitude 5 in house 1.
C3_HouseTotal ==
    (fpc = "done" /\ ValidCusps(houseCusps) /\ bodyLon >= 0 /\ bodyLon < Deg(360)) =>
        /\ houseOut \in 1..12
        /\ { i \in 1..12 : InArc(bodyLon, houseCusps[i], NextCusp(houseCusps, i)) }
             = { houseOut }
        /\ (houseCusps[1] = Deg(350) /\ houseCusps[2] = Deg(20) /\ bodyLon = Deg(5))
             => houseOut = 1

\* the claim's example: cusps 350, 20, 50, ... and a body at 5 in the wrapping house
C3_Witness ==
    /\ fpc = "done"
    /\ ValidCusps(houseCusps)
    /\ houseCusps[1] = Deg(350) /\ houseCusps[2] = Deg(20) /\ houseCusps[3] = Deg(50)
    /\ bodyLon = Deg(5)
    /\ houseOut = 1

\* C4: the list calculateAspects returns ascends by recorded orb, and entries of
\* equal orb stand in the order their pairs were enumerated (i<j, by i then j).
C4_SortedStable ==
    fpc = "done" =>
        \A a, b \in DOMAIN aspects : a < b =>
            /\ aspects[a].orb <= aspects[b].orb
            /\ aspects[a].orb = aspects[b].orb =>
                 \/ PosOf(aspects[a].planet1) < PosOf(aspects[b].planet1)
                 \/ /\ PosOf(aspects[a].planet1) = PosOf(aspects[b].planet1)
                    /\ PosOf(aspects[a].planet2) < PosOf(aspects[b].planet2)

\* a result the sort had to reorder and that holds two entries of equal orb
C4_Witness ==
    /\ fpc = "done"
    /\ aspects # OuterLoop(planets, 1)
    /\ \E a, b \in DOMAIN aspects : a < b /\ aspects[a].orb = aspects[b].orb
    /\ \E a, b \in DOMAIN aspects : a < b /\ aspects[a].orb < aspects[b].orb

\* C5: every entry of the result relates two different list positions, the
\* first before the second; no pair of positions has two entries; so n bodies
\* give at most n(n-1)/2 entries.
C5_PairsOnce ==
    fpc = "done" =>
        /\ 2 * Len(aspects) <= Len(planets) * (Len(planets) - 1)
        /\ \A k \in DOMAIN aspects :
             /\ PosOf(aspects[k].planet1) < PosOf(aspects[k].planet2)
             /\ PosOf(aspects[k].planet2) <= Len(planets)
        /\ \A i, j \in DOMAIN planets : Cardinality(EntriesOf(aspects, planets, i, j)) <= 1

\* three bodies of which every pair is recorded
C5_Witness ==
    /\ fpc = "done"
    /\ Len(planets) = 3
    /\ Len(aspects) = 3
    /\ planets[1].longitude # planets[2].longitude

\* the list with the bodies at positions i and j exchanged
Swapped(ps, i, j) ==
    [ k \in DOMAIN ps |-> IF k = i THEN ps[j] ELSE IF k = j THEN ps[i] ELSE ps[k] ]

\* what a result says of the two named bodies, whichever is planet1: the set
\* of <<type, orb>> it records for them
Relation(res, n1, n2) ==
    { << res[k].aspect, res[k].orb >> : k \in
        { k \in DOMAIN res : \/ res[k].planet1 = n1 /\ res[k].planet2 = n2
                             \/ res[k].planet1 = n2 /\ res[k].planet2 = n1 } }

\* C6: exchanging two bodies of the list leaves what is detected between them
\* as it was: the same type and orb, or nothing in both orders, with planet1
\* and planet2 exchanged.
C6_Symmetric ==
    fpc = "done" =>
        \A i, j \in DOMAIN planets : i < j =>
            LET res == calculateAspects(Swapped(planets, i, j))
            IN  /\ Relation(res, planets[i].name, planets[j].name)
                     = Relation(aspects, planets[i].name, planets[j].name)
                /\ \A k \in EntriesOf(aspects, planets, i, j) :
                     \E m \in DOMAIN res :
                        /\ res[m].planet1 = planets[j].name
                        /\ res[m].planet2 = planets[i].name

\* two bodies at different longitudes with an aspect between them, and a third
C6_Witness ==
    /\ fpc = "done"
    /\ Len(planets) = 3
    /\ planets[1].longitude < planets[3].longitude
    /\ EntriesOf(aspects, planets, 1, 3) # {}
    /\ EntriesOf(aspects, planets, 1, 2) = {}

\* the condition the claim gives for an interval to match
ClaimedMatch(L, cur, next) ==
    IF next > cur THEN cur <= L /\ L < next ELSE L >= cur \/ L < next

\* the intervals of a cusp list that match a longitude, by index
Matching(L, cusps) ==
    { i \in DOMAIN cusps : ClaimedMatch(L, cusps[i], NextCusp(cusps, i)) }

\* C8: calculateHousePosition always returns a number: the index of the first
\* interval that matches, or 1 when none does.
C8_FirstMatchOrOne ==
    fpc = "done" =>
        LET m == Matching(bodyLon, houseCusps)
        IN  IF m = {} THEN houseOut = 1
            ELSE houseOut \in m /\ \A i \in m : houseOut <= i

\* a malformed list in which several intervals match and a later one is not the first
C8_Witness ==
    /\ fpc = "done"
    /\ Cardinality(Matching(bodyLon, houseCusps)) >= 2
    /\ houseOut > 1

\* no interval to match: the empty list falls through to house 1
C8_FallbackReached ==
    /\ fpc = "done"
    /\ Matching(bodyLon, houseCusps) = {}
    /\ houseOut = 1

\* C9: the house table of a reading has twelve records; the i-th has number i,
\* the i-th fixed label, the i-th cusp as its cusp, and the sign and degree
\* that getSignAndDegree returns for that cusp.
C9_HouseTable ==
    response.ok =>
        /\ Len(reading.houses) = 12
        /\ Len(reading.houseCusps) = 12
        /\ \A i \in 1..12 :
             /\ reading.houses[i].number = i
             /\ reading.houses[i].name = houseNames[i]
             /\ reading.houses[i].cusp = reading.houseCusps[i]
             /\ reading.houses[i].sign = getSignAndDegree(reading.houseCusps[i]).sign
             /\ reading.houses[i].degree = getSignAndDegree(reading.houseCusps[i]).degree
        /\ reading.houses[1].name = "1st House (Self)"
        /\ reading.houses[12].name = "12th House (Spirituality)"

\* a reading whose cusps carry a third decimal and wrap across 360/0
C9_Witness ==
    /\ hpc = "responded"
    /\ response.ok
    /\ reading.houses[1].cusp = Deg(345) + 996
    /\ reading.houses[1].degree = Deg(16)
    /\ reading.houses[2].sign = "Aries"

\* C10: each external service is called at most once per request; a failed
\* geocoding or ephemeris call is answered at once with status 500 and an
\* error message, with no reading built, and after a failed geocoding the
\* ephemeris is not called.
C10_UpstreamFailure ==
    /\ geoCalls <= 1
    /\ astroCalls <= 1
    /\ (geo = "failed" \/ astro = "failed") =>
         /\ hpc = "responded"
         /\ response.status = 500
         /\ response.error # ""
         /\ ~response.ok
         /\ reading = NoReading
    /\ geo = "failed" => astroCalls = 0 /\ coordinates = NoCoordinates

\* geocoding answered, then the ephemeris call failed
C10_Witness ==
    /\ hpc = "responded"
    /\ geo = "ok"
    /\ astro = "failed"
    /\ response.status = 500

\* the other failure: geocoding itself failed
C10_GeocodeFailed ==
    /\ hpc = "responded"
    /\ geo = "failed"
    /\ response.status = 500

\* C11: in every reading, a body is retrograde exactly when the ephemeris
\* supplied a speed for it and that speed is negative.
C11_Retrograde ==
    response.ok =>
        /\ Len(reading.planets) = Len(astroData.planets)
        /\ \A i \in DOMAIN reading.planets :
             reading.planets[i].retrograde
                 <=> (astroData.planets[i].hasSpeed /\ astroData.planets[i].speed < 0)

\* a reading with a retrograde body, a body of speed 0 and a body without a speed
C11_Witness ==
    /\ response.ok
    /\ \E i \in DOMAIN reading.planets : reading.planets[i].retrograde
    /\ \E i \in DOMAIN reading.planets :
         astroData.planets[i].hasSpeed /\ astroData.planets[i].speed = 0
    /\ \E i \in DOMAIN reading.planets : ~astroData.planets[i].hasSpeed

C20_SignAt360 ==
    (fpc = "done" /\ lon = Deg(360)) =>
        signOut.sign \in { ClaimedSigns[k] : k \in DOMAIN ClaimedSigns }

\* a saved item that holds the text of a reading
HoldsReading(item) == item # NoItem /\ item # CorruptItem

\* C12: whenever the page holds a reading and its saved item, parsing the item
\* gives back the reading's placements, aspects and houses unchanged.
C12_RoundTrip ==
    (pageReading # NoReading /\ HoldsReading(chartData)) =>
        LET back == JSONparse(chartData)
        IN  /\ back.planets = pageReading.planets
            /\ back.byName = pageReading.byName
            /\ back.aspects = pageReading.aspects
            /\ back.houses = pageReading.houses

\* a reading restored by the mount effect after the page itself saved it, one
\* of its longitudes carrying a third decimal and one of its orbs a fraction
C12_Witness ==
    /\ mounted /\ chartFetch = NoFetch /\ chartCalls >= 1
    /\ pageReading # NoReading
    /\ \E i \in DOMAIN pageReading.planets : pageReading.planets[i].longitude % 10 # 0
    /\ \E i \in DOMAIN pageReading.aspects : pageReading.aspects[i].orb % 1000 # 0

\* C13 as stated: once a reading for some birth metadata has been computed and
\* saved, a submit of the same metadata issues no calculate-chart request.
C13_ResubmitServedFromCache ==
    [][ ( /\ chartFetch.state = "ok"
          /\ ~pageLoading /\ pageLoading'
          /\ chartFetch'.birthInfo = chartFetch.birthInfo )
        => chartCalls' = chartCalls ]_vars

\* C13 amended: the saved reading is what the mount effect restores, without a
\* request; every submit issues one request, whatever was computed before.
C13_SavedServesMount ==
    [][ /\ (~mounted /\ mounted' /\ HoldsReading(chartData))
            => /\ chartCalls' = chartCalls
               /\ currentView' = "chat"
               /\ pageReading' = JSONparse(chartData)
               /\ chartData' = chartData
        /\ (~pageLoading /\ pageLoading') => chartCalls' = chartCalls + 1 ]_vars

\* the chat view restored on a reload, the one request so far being the one
\* that computed the reading
C13_Witness ==
    /\ mounted /\ currentView = "chat" /\ chartFetch = NoFetch /\ chartCalls = 1
    /\ HoldsReading(chartData)

\* C18: a calculate-chart request that fails leaves the view on the form, the
\* reading and the saved item as they were, raises an alert and ends loading.
C18_FailureStaysOnForm ==
    [][ (chartFetch.state = "pending" /\ chartFetch'.state \in {"notOk", "networkError"})
        => /\ currentView = "form" /\ currentView' = "form"
           /\ pageReading' = pageReading
           /\ chartData' = chartData
           /\ alerts' = alerts + 1
           /\ pageLoading /\ ~pageLoading' ]_vars

C18_Witness ==
    /\ chartFetch.state \in {"notOk", "networkError"}
    /\ alerts >= 1 /\ ~pageLoading /\ currentView = "form"

\* C19: once the mount effect has run, the view is 'chat' exactly when the page
\* holds a reading, and exactly when localStorage holds 'astroChartData'.
C19_ViewReadingItemAgree ==
    mounted =>
        /\ (currentView = "chat") <=> (pageReading # NoReading)
        /\ (pageReading # NoReading) <=> (chartData # NoItem)

\* back on the form after a failed submit, a successful one and Back
C19_Witness ==
    /\ mounted /\ currentView = "form" /\ chartFetch.state = "ok"
    /\ alerts >= 1 /\ chartData = NoItem

\* TerminalChat is rendered by this step
ChatOpens == ~ChatMounted /\ ChatMounted'

\* the commentary entry of birth metadata b is there and younger than 24 hours
YoungEntry(b) ==
    /\ explCache[b] # NoItem
    /\ DateNow - getTime(explCache[b].timestamp) < 24 * 60 * 60 * 1000

\* C14: opening the chat for a reading whose commentary entry is younger than
\* 24 hours shows the cached explanations and issues no chart-explanations
\* request; a request is issued only on opening the chat with no entry or with
\* one that is 24 hours old or older, and then one is issued.
C14_CommentaryCache ==
    [][ /\ ChatOpens =>
              IF YoungEntry(pageReading'.birthInfo)
                THEN /\ messages' = explanationMessages(
                                        explCache[pageReading'.birthInfo].explanations)
                     /\ explanationsLoaded'
                     /\ explCalls' = explCalls
                     /\ explFetches' = explFetches
                ELSE /\ explCalls' = explCalls + 1
                     /\ explFetches' = Append(explFetches,
                                              [cacheKey |-> pageReading'.birthInfo, live |-> TRUE])
        /\ (explCalls' # explCalls) => ChatOpens ]_vars

\* the chat reopened by a reload and served from the entry: one request in all
C14_Witness ==
    /\ ChatMounted /\ explanationsLoaded /\ messages # << >>
    /\ chartCalls = 1 /\ reloads >= 1 /\ chartFetch = NoFetch
    /\ explCalls = 1 /\ explFetches = << >>

\* the query in hand has its requests in flight
Asked == \A i \in KeyIndexes : tasks[i].state = "pending"

\* the message of every planet key of the query in hand has been appended
AllAppended == \A i \in KeyIndexes : tasks[i].state = "appended"

\* the message due to planet key i of the query in hand
PlanetMessage(i, outcome) ==
    [ character |-> planetKeys[i], id |-> sends,
      content |-> IF outcome = "replied" THEN "response" ELSE "ERROR: Connection failed" ]

\* the messages of planet key i for the query in hand that the transcript holds
MessagesOf(i) ==
    { k \in DOMAIN messages :
        messages[k].character = planetKeys[i] /\ messages[k].id = sends }

\* C16: an accepted query puts one request per planet key in flight; when the
\* timer of a settled request fires, that planet's message is appended, the
\* reply if the request succeeded and the error message if it failed; the
\* transcript never holds two messages of one planet for one query; and once
\* the requests are in flight, every planet's message is eventually appended:
\* time and again no request or timer is outstanding.
C16_OneMessagePerPlanet ==
    /\ [][ (sends' = sends + 1) => Asked' ]_vars
    /\ [][ \A i \in KeyIndexes :
             (tasks[i].state \in {"replied", "failed"} /\ tasks'[i].state = "appended")
                 => messages' = Append(messages, PlanetMessage(i, tasks[i].state)) ]_vars
    /\ [](\A i \in KeyIndexes : Cardinality(MessagesOf(i)) <= 1)
    /\ []<>(\A i \in KeyIndexes : tasks[i].state \in {"none", "appended"})

\* a query answered, one planet with its reply and one with the error message
C16_Witness ==
    /\ sends >= 1 /\ AllAppended
    /\ \E k \in DOMAIN messages : messages[k] = PlanetMessage(1, "replied")
    /\ \E k \in DOMAIN messages : messages[k] = PlanetMessage(2, "failed")

IsPrefix(s, t) == Len(s) <= Len(t) /\ SubSeq(t, 1, Len(s)) = s

\* C17 as stated: while the chat stays rendered, every step leaves the
\* messages it found in place and at most appends to them.
C17_AppendOnly ==
    [][ (ChatMounted /\ ChatMounted') => IsPrefix(messages, messages') ]_vars

\* the bodies of a list whose longitude is a finite number, in list order
FiniteBodies(ps) == SelectSeq(ps, LAMBDA p : IsFinite(p.longitude))

\* C21: calculateAspects returns a list for every malformed input: the empty
\* list for fewer than 2 bodies; no entry names a body whose longitude is not
\* finite; and the entries are those of the list without such bodies.
C21_MalformedInput ==
    fpc = "done" =>
        /\ Len(planets) < 2 => aspects = << >>
        /\ \A k \in DOMAIN aspects : \A i \in DOMAIN planets :
              planets[i].name \in {aspects[k].planet1, aspects[k].planet2}
                  => IsFinite(planets[i].longitude)
        /\ aspects = calculateAspects(FiniteBodies(planets))

\* a NaN body and an infinite one between bodies that aspect each other
C21_Witness ==
    /\ fpc = "done" /\ Len(planets) = 4 /\ aspects # << >>
    /\ \E i, j \in DOMAIN planets :
          planets[i].longitude = NaN /\ planets[j].longitude = Infinity

\* the entries of the code's table whose orb admits a separation
Admitting(sep) == { k \in DOMAIN aspectTypes : WithinOrb(OrbTo(sep, k), k) }

\* C22: the separation of every pair is within the orb of at most one entry of
\* the table, and a recorded aspect is of the entry whose ideal angle is
\* nearest to the separation.
C22_OrbsDisjoint ==
    fpc = "done" =>
        \A i, j \in DOMAIN planets : i < j =>
            LET sep == ShorterArc(planets[i].longitude, planets[j].longitude)
            IN  /\ Cardinality(Admitting(sep)) <= 1
                /\ \A k \in EntriesOf(aspects, planets, i, j) :
                      /\ \E m \in Admitting(sep) : aspectTypes[m].name = aspects[k].aspect
                      /\ \A t \in ClaimedTable :
                            Abs(sep - Deg(aspects[k].exactDegrees)) <= Abs(sep - Deg(t.degrees))

\* a pair at the very edge of the narrowest orb, 3 degrees from the quincunx
C22_Witness ==
    /\ fpc = "done" /\ Len(planets) = 2 /\ Len(aspects) = 1
    /\ aspects[1].aspect = "Quincunx" /\ aspects[1].orb = Deg(3)

\* C23: a successful answer carries exactly 12 cusps, cusp i (from 0) being
\* (ascendant + 30 i) mod 360; with the ascendant in [0,360) every cusp lies in
\* [0,360) and each cusp is 30 degrees past the one before it around the circle.
C23_TwelveEqualCusps ==
    (hpc = "responded" /\ response.ok) =>
        LET cusps == reading.houseCusps
            A     == astroData.ascendant
        IN  /\ Len(cusps) = 12 /\ Len(reading.houses) = 12
            /\ \A i \in 0..11 :
                  /\ cusps[i + 1] = (A + Deg(30) * i) % Deg(360)
                  /\ reading.houses[i + 1].cusp = cusps[i + 1]
            /\ (0 <= A /\ A < Deg(360)) =>
                  /\ \A i \in 1..12 : 0 <= cusps[i] /\ cusps[i] < Deg(360)
                  /\ \A i \in 1..11 :
                        (cusps[i + 1] - cusps[i] + Deg(360)) % Deg(360) = Deg(30)

\* an ascendant late in the circle, so that the cusps wrap past 360
C23_Witness ==
    /\ hpc = "responded" /\ response.ok
    /\ astroData.ascendant = Deg(345) + 500
    /\ reading.houseCusps[2] = Deg(15) + 500

\* the intervals of the scan that hold the longitude
ScanMatches(L, cusps) ==
    { i \in DOMAIN cusps : IntervalMatches(L, cusps[i], NextCusp(cusps, i)) }

AllNumbers(L, cusps) == L # NaN /\ \A i \in DOMAIN cusps : cusps[i] # NaN

AllFinite(L, cusps) == IsFinite(L) /\ \A i \in DOMAIN cusps : IsFinite(cusps[i])

\* C24: with a non-empty list of finite cusps, in any order, and a finite
\* longitude some interval of the scan matches and its house is returned; no
\* interval matches only when the list is empty or a value is not a number.
C24_SomeIntervalMatches ==
    fpc = "done" =>
        LET m == ScanMatches(bodyLon, houseCusps)
        IN  /\ (houseCusps # << >> /\ AllFinite(bodyLon, houseCusps)) =>
                  m # {} /\ houseOut \in m
            /\ m = {} =>
                  /\ houseCusps = << >> \/ ~AllNumbers(bodyLon, houseCusps)
                  /\ houseOut = HouseFallback

\* a list that is not circularly monotonic, matched in a house after the first
C24_Witness ==
    /\ fpc = "done"
    /\ houseCusps = << Deg(100), 0, Deg(350) >> /\ bodyLon = Deg(50)
    /\ houseOut = 2

\* the fallback reached because the longitude is not a number
C24_FallbackOnNaN ==
    /\ fpc = "done"
    /\ houseCusps = << 0, Deg(100) >> /\ bodyLon = NaN
    /\ ScanMatches(bodyLon, houseCusps) = {}
    /\ houseOut = HouseFallback

\* C25: with the cusps synthesised from an ascendant A in [0,360), a body at L in
\* [0,360) is placed in house floor(((L - A) mod 360) / 30) + 1; A is the first
\* cusp of the list.
C25_EqualHouseRule ==
    fpc = "done" =>
        LET A == houseCusps[1]
        IN  houseOut = (((bodyLon - A + Deg(360)) % Deg(360)) \div Deg(30)) + 1

\* a body exactly on the second cusp, which lies past the wrap of the circle
C25_Witness ==
    /\ fpc = "done"
    /\ houseCusps = SynthCusps(Deg(345) + 500)
    /\ bodyLon = Deg(15) + 500
    /\ houseOut = 2

\* the requests of the query in hand that have not settled
InFlight == { i \in KeyIndexes : tasks[i].state = "pending" }

\* the message at position k is a planet's
IsPlanetMessage(k) == \E i \in DOMAIN planetKeys : messages[k].character = planetKeys[i]

C27_LoadingEnds ==
    /\ []((chatLoading /\ AllAppended) => ENABLED LoadingTimer)
    /\ []<>(~chatLoading)

\* loading cleared after a query whose requests both succeeded and failed
C27_Witness ==
    /\ sends >= 1 /\ ~chatLoading /\ AllAppended
    /\ \E k \in DOMAIN messages :
          IsPlanetMessage(k) /\ messages[k].content = "ERROR: Connection failed"
    /\ \E k \in DOMAIN messages : IsPlanetMessage(k) /\ messages[k].content = "response"

\* the bodies of the requests in flight
Bodies == { tasks[i].body : i \in { j \in KeyIndexes : tasks[j].state = "pending" } }

\* C30 as stated: the history of a request is made of at most the 6 most recent
\* messages that stand before the query in the transcript, all requests of a
\* query carry the same history, and the query stands nowhere in what is sent
\* on but in the final user message.
C30_QueryOnlyFinal ==
    /\ [][ (sends' = sends + 1) =>
              \A i \in KeyIndexes :
                  LET body == tasks'[i].body
                      sent == ChatMessages(body)
                      q    == messages'[Len(messages')].content
                  IN  /\ Len(body.conversationHistory) <= 6
                      /\ body.conversationHistory = wholeTranscript(
                             SubSeq(messages', Len(messages') - Len(body.conversationHistory),
                                    Len(messages') - 1))
                      /\ sent[Len(sent)] = [role |-> "user", content |-> q]
                      /\ sent[1].role = "system" /\ sent[1].content.question # q ]_vars
    /\ [](\A b, c \in Bodies : b.conversationHistory = c.conversationHistory)

\* C30: as above, except that the query is also quoted by the system prompt,
\* which is the first message sent on; the history is drawn from the positions
\* of the transcript before the query's.
C30_HistoryPrecedesQuery ==
    /\ [][ (sends' = sends + 1) =>
              \A i \in KeyIndexes :
                  LET body == tasks'[i].body
                      sent == ChatMessages(body)
                      q    == messages'[Len(messages')].content
                      n    == Len(body.conversationHistory)
                  IN  /\ n <= 6
                      /\ n = Len(messages') - 1 \/ n = 6
                      /\ messages'[Len(messages')].character = "user"
                      /\ body.conversationHistory =
                             [ k \in 1..n |-> HistoryEntry(messages'[Len(messages') - 1 - n + k]) ]
                      /\ Len(sent) = n + 2
                      /\ sent[1] = [ role |-> "system",
                                     content |-> [character |-> planetKeys[i], question |-> q] ]
                      /\ sent[n + 2] = [role |-> "user", content |-> q] ]_vars
    /\ [](\A b, c \in Bodies : b.conversationHistory = c.conversationHistory)

\* a query put after seven messages of commentary: its history is the last six
C30_Witness ==
    /\ sends >= 1 /\ Asked
    /\ Len(messages) = 8
    /\ \A i \in KeyIndexes :
          /\ Len(tasks[i].body.conversationHistory) = 6
          /\ tasks[i].body.conversationHistory[1].content = << "ASTROLOGER", "Sun" >>

\* the request's location carries both coordinates
CarriesBoth(req) == req.location.present /\ req.location.hasLat /\ req.location.hasLng

\* C29 as stated: a request whose location carries a latitude and a longitude
\* is never geocoded and is computed with exactly those coordinates; the
\* geocoding service is called only when a coordinate is absent.
C29_CarriedCoordinatesUsed ==
    /\ (CarriesBoth(request) => geoCalls = 0)
    /\ (CarriesBoth(request) /\ coordinates.set) =>
          /\ coordinates.latitude = request.location.latitude
          /\ coordinates.longitude = request.location.longitude
    /\ geoCalls > 0 => ~CarriesBoth(request)

\* the text names one of the predefined cities
NamesCity(text) == toLowerCase(text) \in DOMAIN cities

\* C28 as stated: what handleSubmit passes to onSubmit names a predefined city
\* and carries that city's coordinates, whatever edits came before; a submit
\* with all fields filled and a text that names no city reports the
\* unknown-location error.
C28_SubmitsOnlyCities ==
    /\ [](formOut.kind = "submitted" =>
             LET l == formOut.birthInfo.location
             IN  /\ NamesCity(l.name)
                 /\ l.latitude = cities[toLowerCase(l.name)].lat
                 /\ l.longitude = cities[toLowerCase(l.name)].lng)
    /\ [][ ( /\ formOut' # formOut
             /\ formData.date # "" /\ formData.time # "" /\ formData.location # ""
             /\ ~NamesCity(formData.location) )
              => formOut'.kind = "unknown" ]_vars

====
